---- MODULE Spec2Model ----
(***************************************************************************)
(* Claims Image Labeler v2: the two Lambda handlers of ARCHITECTURE.md      *)
(* (generatePresignedUrl, analyzeImage) and the data they exchange with     *)
(* S3, Bedrock, CloudWatch and the client.                                  *)
(*                                                                          *)
(* Text is modelled as a sequence of lexemes (tokens).  A JSON value is a   *)
(* record [t, s, n, a]: its type t, and the content of a string in s, the   *)
(* number in n, the elements of an array or the members of an object in a.  *)
(* The literal token of a string, number or null is the value itself.       *)
(* The content of a string is a sequence of atoms, an                       *)
(* atom being a word or the blank " ", so that leading and trailing         *)
(* whitespace of a string is visible.  Numbers are counted in hundredths:   *)
(* 92 is 0.92, 170 is 1.7, -30 is -0.3.                                      *)
(***************************************************************************)
EXTENDS Integers, Sequences, FiniteSets, TLC

(***************************************************************************)
(* JSON values, as Python's json module builds them.                        *)
(***************************************************************************)
Str(p) == [t |-> "str", s |-> p, n |-> 0, a |-> <<>>]

Num(x) == [t |-> "num", s |-> <<>>, n |-> x, a |-> <<>>]

Null == [t |-> "null", s |-> <<>>, n |-> 0, a |-> <<>>]

Arr(elems) == [t |-> "arr", s |-> <<>>, n |-> 0, a |-> elems]

\* a dict: its (key, value) pairs in insertion order, keys unique
Obj(pairs) == [t |-> "obj", s |-> <<>>, n |-> 0, a |-> pairs]

\* a lexeme that is not a literal: { } [ ] : , whitespace, a word of prose, a code fence
Tok(c) == [t |-> c, s |-> <<>>, n |-> 0, a |-> <<>>]

LBrace == Tok("{")

RBrace == Tok("}")

LBracket == Tok("[")

RBracket == Tok("]")

Colon == Tok(":")

Comma == Tok(",")

Ws == Tok("ws")

Word == Tok("word")

Fence == Tok("fence")

W(word) == Str(<<word>>)

\* the value returned by a failed scan
NoValue == Tok("none")

(***************************************************************************)
(* dict: d[k] = val, `in`, and d[k].                                        *)
(***************************************************************************)
RECURSIVE IndexOfKey(_, _, _)
IndexOfKey(pairs, k, i) ==
    IF i > Len(pairs) THEN 0
    ELSE IF pairs[i].k = k THEN i
    ELSE IndexOfKey(pairs, k, i + 1)

\* dict(pairs) keeps the position of a key's first insertion and its last value
DictSet(pairs, k, val) ==
    LET i == IndexOfKey(pairs, k, 1)
    IN  IF i = 0 THEN Append(pairs, [k |-> k, val |-> val])
        ELSE [pairs EXCEPT ![i] = [k |-> k, val |-> val]]

HasKey(d, k) == d.t = "obj" /\ IndexOfKey(d.a, k, 1) # 0

GetKey(d, k) == d.a[IndexOfKey(d.a, k, 1)].val

(***************************************************************************)
(* json.loads: the scanner of Python's json.decoder over the lexemes.       *)
(***************************************************************************)
RECURSIVE SkipWs(_, _)
SkipWs(s, i) ==
    IF i <= Len(s) /\ s[i].t = "ws" THEN SkipWs(s, i + 1) ELSE i

ScanFail == [ok |-> FALSE, val |-> NoValue, end |-> 0]

ScanOk(val, end) == [ok |-> TRUE, val |-> val, end |-> end]

At(s, i, c) == i <= Len(s) /\ s[i].t = c

RECURSIVE ScanOnce(_, _), JSONObjectMembers(_, _, _), JSONArrayElems(_, _, _)

\* s[j] is a property name; pairs are the members read so far
JSONObjectMembers(s, j, pairs) ==
    LET c == SkipWs(s, j + 1)
    IN  IF ~At(s, c, ":") THEN ScanFail
        ELSE LET r == ScanOnce(s, SkipWs(s, c + 1))
             IN  IF ~r.ok THEN ScanFail
                 ELSE LET n == SkipWs(s, r.end)
                          more == DictSet(pairs, s[j].s, r.val)
                      IN  IF At(s, n, "}") THEN ScanOk(Obj(more), n + 1)
                          ELSE IF ~At(s, n, ",") THEN ScanFail
                          ELSE LET q == SkipWs(s, n + 1)
                               IN  IF At(s, q, "str")
                                   THEN JSONObjectMembers(s, q, more)
                                   ELSE ScanFail

\* i is the position after the opening brace
JSONObject(s, i) ==
    LET j == SkipWs(s, i)
    IN  IF At(s, j, "}") THEN ScanOk(Obj(<<>>), j + 1)
        ELSE IF At(s, j, "str") THEN JSONObjectMembers(s, j, <<>>)
        ELSE ScanFail

\* j is the position of the next element; elems are the elements read so far
JSONArrayElems(s, j, elems) ==
    LET r == ScanOnce(s, j)
    IN  IF ~r.ok THEN ScanFail
        ELSE LET n == SkipWs(s, r.end)
                 more == Append(elems, r.val)
             IN  IF At(s, n, "]") THEN ScanOk(Arr(more), n + 1)
                 ELSE IF ~At(s, n, ",") THEN ScanFail
                 ELSE JSONArrayElems(s, SkipWs(s, n + 1), more)

\* i is the position after the opening bracket
JSONArray(s, i) ==
    LET j == SkipWs(s, i)
    IN  IF At(s, j, "]") THEN ScanOk(Arr(<<>>), j + 1)
        ELSE JSONArrayElems(s, j, <<>>)

ScanOnce(s, i) ==
    IF i > Len(s) THEN ScanFail
    ELSE IF s[i].t \in {"str", "num", "null"} THEN ScanOk(s[i], i + 1)
    ELSE IF s[i].t = "{" THEN JSONObject(s, i + 1)
    ELSE IF s[i].t = "[" THEN JSONArray(s, i + 1)
    ELSE ScanFail

\* json.loads wrapped to fall back on a guessed verdict when the text does not parse
JsonLoadsDefaulting(s) ==
    LET r == ScanOnce(s, SkipWs(s, 1))
    IN  IF r.ok /\ SkipWs(s, r.end) = Len(s) + 1
        THEN [ok |-> TRUE, val |-> r.val]
        ELSE [ok |-> TRUE,
              val |-> Obj(<<[k |-> <<"verdict">>, val |-> W("INCONCLUSIVE")],
                            [k |-> <<"confidence">>, val |-> Num(0)],
                            [k |-> <<"hints">>, val |-> Arr(<<>>)]>>)]

\* json.loads that takes whitespace after the value for extra data
JsonLoadsNoTrailingWs(s) ==
    LET r == ScanOnce(s, SkipWs(s, 1))
    IN  IF r.ok /\ r.end = Len(s) + 1
        THEN [ok |-> TRUE, val |-> r.val]
        ELSE [ok |-> FALSE, val |-> NoValue]

\* json.loads(s): one value, whitespace allowed around it, nothing else
JsonLoads(s) ==
    LET r == ScanOnce(s, SkipWs(s, 1))
    IN  IF r.ok /\ SkipWs(s, r.end) = Len(s) + 1
        THEN [ok |-> TRUE, val |-> r.val]
        ELSE [ok |-> FALSE, val |-> NoValue]

(***************************************************************************)
(* json.dumps with the default separators ", " and ": ".                    *)
(***************************************************************************)
RECURSIVE JsonDumps(_), DumpElems(_, _), DumpPairs(_, _)

DumpElems(elems, i) ==
    IF i > Len(elems) THEN <<>>
    ELSE (IF i > 1 THEN <<Comma, Ws>> ELSE <<>>)
         \o JsonDumps(elems[i]) \o DumpElems(elems, i + 1)

DumpPairs(pairs, i) ==
    IF i > Len(pairs) THEN <<>>
    ELSE (IF i > 1 THEN <<Comma, Ws>> ELSE <<>>)
         \o <<Str(pairs[i].k), Colon, Ws>> \o JsonDumps(pairs[i].val)
         \o DumpPairs(pairs, i + 1)

JsonDumps(x) ==
    IF x.t = "arr" THEN <<LBracket>> \o DumpElems(x.a, 1) \o <<RBracket>>
    ELSE IF x.t = "obj" THEN <<LBrace>> \o DumpPairs(x.a, 1) \o <<RBrace>>
    ELSE <<x>>

(***************************************************************************)
(* The texts the model may answer with (RawModelOutput).                    *)
(***************************************************************************)
\* the longest hints array the model answers with
MaxHints == 10

\* the most observations the prompt asks for ("An array of 3-6 short observations")
HintCap == 6

VerdictLiterals == {<<"AI_GENERATED">>, <<"LIKELY_REAL">>, <<"INCONCLUSIVE">>}

\* the i-th of a run of distinct observations
Hint(i) == Str([j \in 1..i |-> "x"])

HintRun(n) == Arr([i \in 1..n |-> Hint(i)])

\* NoValue stands for a field the answer leaves out
VerdictChoices ==
    {NoValue, W("AI_GENERATED"), W("LIKELY_REAL"), W("INCONCLUSIVE"),
     W("ai_generated"), W("FAKE"), Num(1), Null}

ConfidenceChoices ==
    {NoValue, Num(-30), Num(0), Num(92), Num(100), Num(170), W("high")}

HintsChoices ==
    {NoValue, Arr(<<>>), Arr(<<Str(<<"edge", " ", "halos">>)>>),
     Arr(<<W("a")>>), Arr(<<Str(<<" ", "a", " ">>)>>),
     Arr(<<W("a"), Num(5), Str(<<>>), Str(<<" ">>), W("b")>>),
     W("x")}
    \cup {HintRun(n) : n \in HintCap..MaxHints}

Field(name, val) ==
    IF val = NoValue THEN <<>> ELSE <<[k |-> <<name>>, val |-> val]>>

Answer(vd, cf, hs) ==
    Obj(Field("verdict", vd) \o Field("confidence", cf) \o Field("hints", hs))

AnswerTexts ==
    {JsonDumps(Answer(vd, cf, hs)) :
        vd \in VerdictChoices, cf \in ConfidenceChoices, hs \in HintsChoices}

\* what the model may put around its JSON: nothing, whitespace, prose, a code fence
Wrappings ==
    {<<<<>>, <<>>>>,
     <<<<Ws>>, <<Ws, Ws>>>>,
     <<<<Word, Ws, Word, Ws>>, <<Ws, Word>>>>,
     <<<<>>, <<Ws, Word, Ws, Word>>>>,
     <<<<Fence, Ws>>, <<Ws, Fence>>>>}

SampleText ==
    JsonDumps(Answer(W("AI_GENERATED"), Num(92), Arr(<<Str(<<"edge", " ", "halos">>)>>)))

\* an answer cut off by the token limit
TruncatedTexts == {SubSeq(SampleText, 1, n) : n \in 0..(Len(SampleText) - 1)}

OtherTexts ==
    {<<Word, Ws, Word, Ws, Word>>,
     <<W("no")>>,
     <<Num(92)>>,
     <<Null>>,
     <<LBrace, RBrace>>,
     <<LBracket>> \o SampleText \o <<RBracket>>,
     <<LBrace, W("verdict"), Colon, W("FAKE"), Comma, W("confidence"), Colon,
       Num(50), Comma, W("verdict"), Colon, W("LIKELY_REAL"), RBrace>>,
     <<LBrace, W("verdict"), Colon, W("LIKELY_REAL"), Comma, RBrace>>}

RawTexts ==
    {w[1] \o a \o w[2] : w \in Wrappings, a \in AnswerTexts}
    \cup TruncatedTexts \cup OtherTexts

(***************************************************************************)
(* The object store and the requests of the client.                         *)
(***************************************************************************)
BUCKET_NAME == "claims-images-bucket"

Keys == {"uploads/u1-car.png", "uploads/u2-roof.jpg", "uploads/missing.png"}

\* the objects the bucket holds
StoredBytes ==
    [k \in {"uploads/u1-car.png", "uploads/u2-roof.jpg"} |->
        IF k = "uploads/u1-car.png" THEN "bytes-car" ELSE "bytes-roof"]

NoResponse == [kind |-> "none", statusCode |-> 0, body |-> <<>>, errorType |-> ""]

\* an exception that leaves lambda_handler: the invocation fails, there is no result
Raised(errorType) ==
    [kind |-> "error", statusCode |-> 0, body |-> <<>>, errorType |-> errorType]

Returned(code, body) ==
    [kind |-> "returned", statusCode |-> code, body |-> body, errorType |-> ""]

(***************************************************************************)
(* generatePresignedUrl.  A declared type or a file name is a sequence of   *)
(* atoms: a run of letters, or one separator.                               *)
(***************************************************************************)
FileTypes ==
    {<<"image", "/", "png">>, <<"image", "/", "jpeg">>, <<"image", "/", "svg+xml">>,
     <<"image", "/">>, <<"image", "/", "png", ";", "x">>, <<"image", "/", "/">>,
     <<"application", "/", "pdf">>, <<"text", "/", "html">>, <<"IMAGE", "/", "PNG">>,
     <<"image">>, <<"images", "/", "png">>, <<" ", "image", "/", "png">>, <<>>,
     <<"png">>, <<"/", "image", "/", "png">>}

FileNames == {"car.png", "claim.pdf", "a/b.png", "../x.png", ""}

\* the values uuid.uuid4() may give
Uuids == {"uuid-1", "uuid-2", "uuid-3"}

ExpiresIn == 900

\* str.startswith
StartsWith(s, prefix) ==
    Len(s) >= Len(prefix) /\ SubSeq(s, 1, Len(prefix)) = prefix

\* the validation written as file_type.startswith('image')
FileTypeAcceptedNoSlash(fileType) == StartsWith(fileType, <<"image">>)

\* the validation of the declared type: file_type.startswith('image/')
FileTypeAccepted(fileType) == StartsWith(fileType, <<"image", "/">>)

\* the key written as f"{uuid.uuid4()}-{file_name}"
UploadKeyNoPrefix(uuid, fileName) == <<uuid, "-", fileName>>

\* f"uploads/{uuid.uuid4()}-{file_name}"
UploadKey(uuid, fileName) == <<"uploads/", uuid, "-", fileName>>

\* generate_presigned_url called without ExpiresIn: boto3 then signs for an hour
PresignedUrlDefaultExpiry(bucket, key, contentType) ==
    [method |-> "put_object", Bucket |-> bucket, Key |-> key,
     ContentType |-> contentType, ExpiresIn |-> 4 * ExpiresIn]

\* s3_client.generate_presigned_url('put_object', Params, ExpiresIn): what the URL signs
PresignedUrl(bucket, key, contentType) ==
    [method |-> "put_object", Bucket |-> bucket, Key |-> key,
     ContentType |-> contentType, ExpiresIn |-> ExpiresIn]

NoUrl == [method |-> "", Bucket |-> "", Key |-> <<>>, ContentType |-> <<>>, ExpiresIn |-> 0]

NoPresignResponse ==
    [statusCode |-> 0, message |-> "", url |-> NoUrl, key |-> <<>>, bucket |-> ""]

\* error_response(400, 'Invalid file type')
ErrorResponse(code, message) ==
    [statusCode |-> code, message |-> message, url |-> NoUrl, key |-> <<>>, bucket |-> ""]

NoPresignRequest == [fileName |-> "", fileType |-> <<>>]

\* seconds between two looks at the clock
TickSeconds == 450

\* the clock stops here
MaxClock == 1350

\* a key and a content type no URL was signed for
OtherKey == <<"uploads/", "other">>

OtherType == <<"text", "/", "plain">>

NoUpload == [key |-> <<>>, contentType |-> <<>>, at |-> 0, statusCode |-> 0]

\* S3 takes a PUT made with a presigned URL when it is made for the key and the
\* content type the URL signs and the URL has not expired
UploadAccepted(url, key, contentType, signedAt, at) ==
    /\ url.method = "put_object"
    /\ key = url.Key
    /\ contentType = url.ContentType
    /\ at <= signedAt + url.ExpiresIn

(***************************************************************************)
(* The upload page, App.                                                    *)
(***************************************************************************)
\* the files the user picks from; NoFile is useState(null)
Files == {"car.png", "roof.jpg", "dent.png"}

NoFile == "null"

NoResult == [summary |-> "", hints |-> <<>>]

\* what mockAnalyze resolves to
MockAnalysis ==
    [summary |-> "No anomalies detected (mock).",
     hints |-> <<"Lighting consistent.", "No texture repetition.", "No tampering found.">>]

UploadErrorMessage == "Error during upload or analysis."

\* the most clicks on the button a run follows
MaxUploads == 3

\* onFileChange(e), e.target.files?.[0] || null being f
OnFileChangeState(st, f) ==
    [st EXCEPT !.file = f, !.result = NoResult, !.resultFor = NoFile, !.error = ""]

\* handleUpload up to its await; with no file it returns, and finally runs
HandleUploadStart(st) ==
    IF st.file = NoFile
    THEN [st EXCEPT !.isUploading = FALSE]
    ELSE [st EXCEPT !.isUploading = TRUE, !.error = "",
                    !.pending = st.pending \cup {[id |-> st.started + 1, file |-> st.file]},
                    !.started = st.started + 1]

\* handleUpload after its await, mockAnalyze having resolved
HandleUploadResolved(st, awaited) ==
    [st EXCEPT !.result = MockAnalysis, !.resultFor = awaited.file,
               !.isUploading = FALSE, !.pending = st.pending \ {awaited}]

\* a handleUpload whose catch is not followed by finally
HandleUploadThrownNoFinally(st, awaited) ==
    [st EXCEPT !.error = UploadErrorMessage, !.pending = st.pending \ {awaited}]

\* handleUpload after its await, the awaited promise having rejected
HandleUploadThrown(st, awaited) ==
    [st EXCEPT !.error = UploadErrorMessage,
               !.isUploading = FALSE, !.pending = st.pending \ {awaited}]

\* the button written with disabled={!file}
ButtonDisabledNoFileOnly(st) == st.file = NoFile

\* disabled={!file || isUploading}
ButtonDisabled(st) == st.file = NoFile \/ st.isUploading

VARIABLES
    file,         \* useState(null): the selected file
    isUploading,  \* useState(false)
    result,       \* useState(null): the analysis shown
    error,        \* useState(""): the message shown
    pending,      \* the analyses handleUpload awaits, each with the file it was started for
    started,      \* analyses started so far
    resultFor,    \* the file the analysis shown was started for
    presignRequest,   \* body of the event given to generatePresignedUrl
    presignResponse,  \* what generatePresignedUrl returned
    now,              \* the clock, in seconds
    issuedAt,         \* when the URL of presignResponse was signed
    upload,           \* the last PUT the browser made with that URL
    pc,          \* where analyzeImage's lambda_handler stands
    request,     \* body of the event: bucket and key
    imageBytes,  \* response['Body'].read()
    inferInput,  \* the image bytes given to converse
    rawText,     \* ai_response
    analysis,    \* json.loads(ai_response)
    logs,        \* the structured lines printed by this invocation
    metrics,     \* the MetricData CloudWatch accepted from this invocation
    fetchCalls,  \* get_object calls issued by this invocation
    inferCalls,  \* converse calls issued by this invocation
    fetchOutcome,   \* how this invocation's get_object ended
    inferOutcome,   \* how this invocation's converse ended
    metricOutcome,  \* how this invocation's put_metric_data ended
    cancelledAt, \* the call that was outstanding when the client gave up the request
    response     \* what the invocation gave back

analyzeVars ==
    <<pc, request, imageBytes, inferInput, rawText, analysis, logs, metrics,
      fetchCalls, inferCalls, fetchOutcome, inferOutcome, metricOutcome, cancelledAt,
      response>>

presignVars == <<presignRequest, presignResponse, now, issuedAt, upload>>

appVars == <<file, isUploading, result, error, pending, started, resultFor>>

vars == <<analyzeVars, presignVars, appVars>>

\* the state of App as one record
AppState ==
    [file |-> file, isUploading |-> isUploading, result |-> result, error |-> error,
     pending |-> pending, started |-> started, resultFor |-> resultFor]

\* the setters take effect
SetAppState(st) ==
    /\ file' = st.file
    /\ isUploading' = st.isUploading
    /\ result' = st.result
    /\ error' = st.error
    /\ pending' = st.pending
    /\ started' = st.started
    /\ resultFor' = st.resultFor

NoRequest == [bucket |-> "", key |-> ""]

\* ai_response before converse has returned
NoText == <<NoValue>>

Init ==
    /\ pc = "idle"
    /\ request = NoRequest
    /\ imageBytes = ""
    /\ inferInput = ""
    /\ rawText = NoText
    /\ analysis = NoValue
    /\ logs = <<>>
    /\ metrics = <<>>
    /\ fetchCalls = 0
    /\ inferCalls = 0
    /\ fetchOutcome = "none"
    /\ inferOutcome = "none"
    /\ metricOutcome = "none"
    /\ cancelledAt = "none"
    /\ response = NoResponse
    /\ presignRequest = NoPresignRequest
    /\ presignResponse = NoPresignResponse
    /\ now = 0
    /\ issuedAt = 0
    /\ upload = NoUpload
    /\ file = NoFile
    /\ isUploading = FALSE
    /\ result = NoResult
    /\ error = ""
    /\ pending = {}
    /\ started = 0
    /\ resultFor = NoFile

\* the exception get_object raises
FetchError(outcome) ==
    CASE outcome = "notfound" -> "NoSuchKey"
      [] outcome = "unavailable" -> "EndpointConnectionError"
      [] outcome = "timeout" -> "ConnectTimeoutError"

\* every failure of converse caught and raised again as one error
InferErrorCollapsed(outcome) == "ClientError"

\* the exception converse raises
InferError(outcome) ==
    CASE outcome = "unavailable" -> "ThrottlingException"
      [] outcome = "timeout" -> "ReadTimeoutError"

\* the handler ends: by a return or by an exception
Finish(r) ==
    /\ pc' = "done"
    /\ response' = r

\* the handler keeping its log lines and metrics in module-level lists
InvokeKeepingState ==
    /\ pc \in {"idle", "done"}
    /\ \E key \in Keys :
        request' = [bucket |-> BUCKET_NAME, key |-> key]
    /\ pc' = "fetch"
    /\ fetchCalls' = 1
    /\ inferCalls' = 0
    /\ imageBytes' = ""
    /\ inferInput' = ""
    /\ rawText' = NoText
    /\ analysis' = NoValue
    /\ fetchOutcome' = "none"
    /\ inferOutcome' = "none"
    /\ metricOutcome' = "none"
    /\ cancelledAt' = "none"
    /\ response' = NoResponse
    /\ UNCHANGED <<logs, metrics>>
    /\ UNCHANGED presignVars
    /\ UNCHANGED appVars

(***************************************************************************)
(* analyzeImage, up to the call of s3_client.get_object.                    *)
(***************************************************************************)
Invoke ==
    /\ pc \in {"idle", "done"}
    /\ \E key \in Keys :
        request' = [bucket |-> BUCKET_NAME, key |-> key]
    /\ pc' = "fetch"
    /\ fetchCalls' = 1
    /\ inferCalls' = 0
    /\ imageBytes' = ""
    /\ inferInput' = ""
    /\ rawText' = NoText
    /\ analysis' = NoValue
    /\ logs' = <<>>
    /\ metrics' = <<>>
    /\ fetchOutcome' = "none"
    /\ inferOutcome' = "none"
    /\ metricOutcome' = "none"
    /\ cancelledAt' = "none"
    /\ response' = NoResponse
    /\ UNCHANGED presignVars
    /\ UNCHANGED appVars

\* get_object returns the bytes; the handler builds the prompt and calls converse
FetchReturn ==
    /\ pc = "fetch"
    /\ request.key \in DOMAIN StoredBytes
    /\ imageBytes' = StoredBytes[request.key]
    /\ inferInput' = StoredBytes[request.key]
    /\ inferCalls' = inferCalls + 1
    /\ pc' = "infer"
    /\ fetchOutcome' = "bytes"
    /\ UNCHANGED <<request, rawText, analysis, logs, metrics, fetchCalls, response>>
    /\ UNCHANGED <<inferOutcome, metricOutcome, cancelledAt>>
    /\ UNCHANGED presignVars
    /\ UNCHANGED appVars

\* get_object raises and the handler calls it again
FetchFailRetried ==
    /\ pc = "fetch"
    /\ \E o \in {"unavailable", "timeout"} : fetchOutcome' = o
    /\ fetchCalls' = fetchCalls + 1
    /\ UNCHANGED <<pc, request, imageBytes, inferInput, rawText, analysis, logs, metrics,
                   inferCalls, inferOutcome, metricOutcome, cancelledAt, response>>
    /\ UNCHANGED presignVars
    /\ UNCHANGED appVars

\* get_object raises and the handler goes on to converse with no bytes
FetchFailSwallowed ==
    /\ pc = "fetch"
    /\ \E o \in {"notfound", "unavailable", "timeout"} :
        /\ o = "notfound" => request.key \notin DOMAIN StoredBytes
        /\ fetchOutcome' = o
    /\ inferCalls' = inferCalls + 1
    /\ pc' = "infer"
    /\ UNCHANGED <<request, imageBytes, inferInput, rawText, analysis, logs, metrics,
                   fetchCalls, inferOutcome, metricOutcome, cancelledAt, response>>
    /\ UNCHANGED presignVars
    /\ UNCHANGED appVars

\* get_object raises: the key is not in the bucket, S3 cannot be reached, or it
\* does not answer in time
FetchFail ==
    /\ pc = "fetch"
    /\ \E o \in {"notfound", "unavailable", "timeout"} :
        /\ o = "notfound" => request.key \notin DOMAIN StoredBytes
        /\ fetchOutcome' = o
        /\ Finish(Raised(FetchError(o)))
    /\ UNCHANGED <<request, imageBytes, inferInput, rawText, analysis, logs, metrics,
                   fetchCalls, inferCalls>>
    /\ UNCHANGED <<inferOutcome, metricOutcome, cancelledAt>>
    /\ UNCHANGED presignVars
    /\ UNCHANGED appVars

\* converse raises: Bedrock refuses the call, or does not answer in time
InferFail ==
    /\ pc = "infer"
    /\ \E o \in {"unavailable", "timeout"} :
        /\ inferOutcome' = o
        /\ Finish(Raised(InferError(o)))
    /\ UNCHANGED <<request, imageBytes, inferInput, rawText, analysis, logs, metrics,
                   fetchCalls, inferCalls>>
    /\ UNCHANGED <<fetchOutcome, metricOutcome, cancelledAt>>
    /\ UNCHANGED presignVars
    /\ UNCHANGED appVars

\* analysis['verdict'], analysis['confidence']: "" when both can be read
SubscriptError(a) ==
    IF a.t # "obj" THEN "TypeError"
    ELSE IF ~HasKey(a, <<"verdict">>) \/ ~HasKey(a, <<"confidence">>) THEN "KeyError"
    ELSE ""

\* the line print(json.dumps({...})) writes
LogLine(req, a) ==
    [bucket |-> req.bucket, key |-> req.key, model |-> "claude-3-5-sonnet",
     verdict |-> GetKey(a, <<"verdict">>), confidence |-> GetKey(a, <<"confidence">>)]

\* MetricData of put_metric_data
MetricData(a) ==
    <<[MetricName |-> "Verdict", Value |-> Num(100),
       Dimension |-> GetKey(a, <<"verdict">>)],
      [MetricName |-> "Confidence", Value |-> GetKey(a, <<"confidence">>),
       Dimension |-> GetKey(a, <<"verdict">>)]>>

\* boto3 checks the parameters before it sends them: a dimension value is a
\* string, a metric value a number
ParamsValid(a) ==
    /\ GetKey(a, <<"verdict">>).t = "str"
    /\ GetKey(a, <<"confidence">>).t = "num"

\* converse returns text: parse it, log it, call put_metric_data
InferReturn ==
    /\ pc = "infer"
    /\ \E text \in RawTexts :
        LET parsed == JsonLoads(text)
        IN  /\ rawText' = text
            /\ IF ~parsed.ok
               THEN /\ Finish(Raised("JSONDecodeError"))
                    /\ UNCHANGED <<analysis, logs>>
               ELSE /\ analysis' = parsed.val
                    /\ IF SubscriptError(parsed.val) # ""
                       THEN /\ Finish(Raised(SubscriptError(parsed.val)))
                            /\ UNCHANGED logs
                       ELSE /\ logs' = Append(logs, LogLine(request, parsed.val))
                            /\ IF ParamsValid(parsed.val)
                               THEN /\ pc' = "metric"
                                    /\ UNCHANGED response
                               ELSE Finish(Raised("ParamValidationError"))
    /\ inferOutcome' = "text"
    /\ UNCHANGED <<request, imageBytes, inferInput, metrics, fetchCalls, inferCalls>>
    /\ UNCHANGED <<fetchOutcome, metricOutcome, cancelledAt>>
    /\ UNCHANGED presignVars
    /\ UNCHANGED appVars

\* put_metric_data returns: the handler returns the analysis as it was parsed
MetricReturn ==
    /\ pc = "metric"
    /\ metrics' = metrics \o MetricData(analysis)
    /\ Finish(Returned(200, JsonDumps(analysis)))
    /\ metricOutcome' = "ok"
    /\ UNCHANGED <<request, imageBytes, inferInput, rawText, analysis, logs,
                   fetchCalls, inferCalls>>
    /\ UNCHANGED <<fetchOutcome, inferOutcome, cancelledAt>>
    /\ UNCHANGED presignVars
    /\ UNCHANGED appVars

\* put_metric_data raises
MetricFail ==
    /\ pc = "metric"
    /\ Finish(Raised("ClientError"))
    /\ metricOutcome' = "failed"
    /\ UNCHANGED <<request, imageBytes, inferInput, rawText, analysis, logs, metrics,
                   fetchCalls, inferCalls>>
    /\ UNCHANGED <<fetchOutcome, inferOutcome, cancelledAt>>
    /\ UNCHANGED presignVars
    /\ UNCHANGED appVars

\* the client gives up its request while the handler waits for an answer; the
\* handler is not told
Cancel ==
    /\ pc \in {"fetch", "infer", "metric"}
    /\ cancelledAt = "none"
    /\ cancelledAt' = pc
    /\ UNCHANGED <<pc, request, imageBytes, inferInput, rawText, analysis, logs, metrics,
                   fetchCalls, inferCalls, fetchOutcome, inferOutcome, metricOutcome,
                   response>>
    /\ UNCHANGED presignVars
    /\ UNCHANGED appVars

Next ==
    \/ Invoke
    \/ Cancel
    \/ FetchReturn
    \/ FetchFail
    \/ InferReturn
    \/ InferFail
    \/ MetricReturn
    \/ MetricFail

Spec == Init /\ [][Next]_vars

\* every call the handler waits for ends: it returns or it raises, at the
\* latest when the function's Timeout of 60 seconds is over
SpecLive ==
    /\ Spec
    /\ WF_vars(FetchReturn \/ FetchFail)
    /\ WF_vars(InferReturn \/ InferFail)
    /\ WF_vars(MetricReturn \/ MetricFail)

(***************************************************************************)
(* generatePresignedUrl's lambda_handler: one step, it waits for nothing.   *)
(***************************************************************************)
\* the handler called with a file name and a declared type, uuid4() giving uuid
PresignCall(fileName, fileType, uuid) ==
    /\ presignRequest' = [fileName |-> fileName, fileType |-> fileType]
    /\ IF ~FileTypeAccepted(fileType)
       THEN /\ presignResponse' = ErrorResponse(400, "Invalid file type")
            /\ UNCHANGED issuedAt
       ELSE /\ presignResponse' =
                  [statusCode |-> 200, message |-> "",
                   url |-> PresignedUrl(BUCKET_NAME, UploadKey(uuid, fileName), fileType),
                   key |-> UploadKey(uuid, fileName), bucket |-> BUCKET_NAME]
            /\ issuedAt' = now
    /\ upload' = NoUpload
    /\ UNCHANGED now
    /\ UNCHANGED analyzeVars
    /\ UNCHANGED appVars

\* the declared type is refused
PresignReject ==
    \E fileName \in FileNames, fileType \in FileTypes :
        /\ ~FileTypeAccepted(fileType)
        /\ PresignCall(fileName, fileType, "")

\* a key is made and a URL signed for it
PresignIssue ==
    \E fileName \in FileNames, fileType \in FileTypes, uuid \in Uuids :
        /\ FileTypeAccepted(fileType)
        /\ PresignCall(fileName, fileType, uuid)

\* time passes
Tick ==
    /\ now + TickSeconds <= MaxClock
    /\ now' = now + TickSeconds
    /\ UNCHANGED <<presignRequest, presignResponse, issuedAt, upload>>
    /\ UNCHANGED analyzeVars
    /\ UNCHANGED appVars

\* the browser PUTs an image with the URL it was given
Upload ==
    /\ presignResponse.statusCode = 200
    /\ \E key \in {presignResponse.key, OtherKey},
          contentType \in {presignRequest.fileType, OtherType} :
        upload' = [key |-> key, contentType |-> contentType, at |-> now,
                   statusCode |->
                      IF UploadAccepted(presignResponse.url, key, contentType, issuedAt, now)
                      THEN 200 ELSE 403]
    /\ UNCHANGED <<presignRequest, presignResponse, now, issuedAt>>
    /\ UNCHANGED analyzeVars
    /\ UNCHANGED appVars

NextPresign ==
    \/ PresignReject
    \/ PresignIssue
    \/ Tick
    \/ Upload

SpecPresign == Init /\ [][NextPresign]_vars

(***************************************************************************)
(* Both functions behind the one API: calls of generatePresignedUrl come    *)
(* between the steps of analyzeImage and between its invocations.           *)
(***************************************************************************)
SessionFileTypes == {<<"image", "/", "png">>, <<"application", "/", "pdf">>}

SessionPresign ==
    \E fileType \in SessionFileTypes : PresignCall("car.png", fileType, "uuid-1")

NextSession ==
    \/ Next
    \/ SessionPresign

SpecSession == Init /\ [][NextSession]_vars

(***************************************************************************)
(* App: what the user does, and what the awaited analysis does.             *)
(***************************************************************************)
\* the user picks a file, or leaves the dialog with none
OnFileChange ==
    /\ \E f \in Files \cup {NoFile} : SetAppState(OnFileChangeState(AppState, f))
    /\ UNCHANGED <<analyzeVars, presignVars>>

\* the user clicks the button, which is not disabled
ClickUpload ==
    /\ ~ButtonDisabled(AppState)
    /\ started < MaxUploads
    /\ SetAppState(HandleUploadStart(AppState))
    /\ UNCHANGED <<analyzeVars, presignVars>>

\* the timer of mockAnalyze fires and the promise resolves
AnalysisResolves ==
    /\ \E awaited \in pending : SetAppState(HandleUploadResolved(AppState, awaited))
    /\ UNCHANGED <<analyzeVars, presignVars>>

\* the awaited promise rejects; mockAnalyze as written never does, the call of
\* the API that is to take its place can
AnalysisThrows ==
    /\ \E awaited \in pending : SetAppState(HandleUploadThrown(AppState, awaited))
    /\ UNCHANGED <<analyzeVars, presignVars>>

NextApp ==
    \/ OnFileChange
    \/ ClickUpload
    \/ AnalysisResolves
    \/ AnalysisThrows

SpecApp == Init /\ [][NextApp]_vars

\* the awaited promise settles: the timer of 800 ms fires
SpecAppLive == SpecApp /\ WF_vars(AnalysisResolves \/ AnalysisThrows)

(***************************************************************************)
(* What the claims speak of.                                                *)
(***************************************************************************)
\* converse has returned its text to this invocation
Answered == rawText # NoText

\* the invocation returned a response with status 200
Succeeded == response.kind = "returned" /\ response.statusCode = 200

\* the record the client reads from the body of the response
ClientRecord == JsonLoads(response.body)

\* the errors raised between the return of converse and the call of put_metric_data
NormalizeErrors == {"JSONDecodeError", "KeyError", "TypeError", "ParamValidationError"}

RECURSIVE TrimLeft(_)
TrimLeft(p) == IF p # <<>> /\ Head(p) = " " THEN TrimLeft(Tail(p)) ELSE p

RECURSIVE TrimRight(_)
TrimRight(p) ==
    IF p # <<>> /\ p[Len(p)] = " " THEN TrimRight(SubSeq(p, 1, Len(p) - 1)) ELSE p

\* a string's content without its leading and trailing whitespace
Trim(p) == TrimRight(TrimLeft(p))

IsHint(x) == x.t = "str" /\ Trim(x.s) # <<>>

\* the three field constraints of a Verdict
IsVerdictRecord(d) ==
    /\ d.t = "obj"
    /\ HasKey(d, <<"verdict">>)
    /\ GetKey(d, <<"verdict">>).t = "str"
    /\ GetKey(d, <<"verdict">>).s \in VerdictLiterals
    /\ HasKey(d, <<"confidence">>)
    /\ GetKey(d, <<"confidence">>).t = "num"
    /\ GetKey(d, <<"confidence">>).n \in 0..100
    /\ HasKey(d, <<"hints">>)
    /\ GetKey(d, <<"hints">>).t = "arr"
    /\ Len(GetKey(d, <<"hints">>).a) <= HintCap
    /\ \A i \in 1..Len(GetKey(d, <<"hints">>).a) : IsHint(GetKey(d, <<"hints">>).a[i])

\* C1: every response with status 200 carries a record whose verdict is one of
\* the three literals, whose confidence is a number in [0, 1] and whose hints
\* are at most six strings, none empty after trimming.
C1_ResponseIsValidVerdict ==
    Succeeded => ClientRecord.ok /\ IsVerdictRecord(ClientRecord.val)

\* the text holds no JSON object: no opening brace anywhere
NoJsonObject(text) == \A i \in 1..Len(text) : text[i].t # "{"

\* C2: when the text of the model holds no JSON object the invocation ends in
\* an error raised while parsing and reading the text; nothing is logged, no
\* metric is emitted and no response (so no default verdict) is returned.
C2_NoObjectIsReported ==
    (Answered /\ NoJsonObject(rawText)) =>
        /\ pc = "done"
        /\ response.kind = "error"
        /\ response.errorType \in {"JSONDecodeError", "TypeError"}
        /\ analysis.t # "obj"
        /\ logs = <<>>
        /\ metrics = <<>>

C2_Witness ==
    /\ rawText = <<Word, Ws, Word, Ws, Word>>
    /\ response.errorType = "JSONDecodeError"

\* positions of the first opening and the last closing brace, 0 when there is none
RECURSIVE FirstBrace(_, _)
FirstBrace(text, i) ==
    IF i > Len(text) THEN 0
    ELSE IF text[i].t = "{" THEN i
    ELSE FirstBrace(text, i + 1)

RECURSIVE LastBrace(_, _)
LastBrace(text, i) ==
    IF i < 1 THEN 0
    ELSE IF text[i].t = "}" THEN i
    ELSE LastBrace(text, i - 1)

\* the outermost brace-delimited span of the text
Core(text) == SubSeq(text, FirstBrace(text, 1), LastBrace(text, Len(text)))

Outside(text) ==
    {i \in 1..Len(text) : i < FirstBrace(text, 1) \/ i > LastBrace(text, Len(text))}

\* a well-formed JSON object with only tokens of the given kinds around it
Embedded(text, kinds) ==
    /\ FirstBrace(text, 1) # 0
    /\ JsonLoads(Core(text)).ok
    /\ \A i \in Outside(text) : text[i].t \in kinds

\* what json.loads gave this invocation
Parsed ==
    IF response.errorType = "JSONDecodeError"
    THEN [ok |-> FALSE, val |-> NoValue]
    ELSE [ok |-> TRUE, val |-> analysis]

\* C3 as claimed: a JSON object surrounded by prose or a code fence is parsed to
\* what the bare object is parsed to.
C3_SurroundingTextIgnored ==
    (Answered /\ Embedded(rawText, {"ws", "word", "fence"})) =>
        Parsed = JsonLoads(Core(rawText))

\* C3 amended: surrounded by whitespace only, the object is parsed to what the
\* bare object is parsed to; with a word or a fence around it json.loads raises
\* and the invocation ends without a response.
C3_OnlyWhitespaceIgnored ==
    /\ (Answered /\ Embedded(rawText, {"ws"})) => Parsed = JsonLoads(Core(rawText))
    /\ (Answered /\ Embedded(rawText, {"ws", "word", "fence"})
          /\ ~Embedded(rawText, {"ws"})) =>
            /\ pc = "done"
            /\ response = Raised("JSONDecodeError")
            /\ metrics = <<>>

C3_Witness ==
    /\ Succeeded
    /\ Outside(rawText) # {}
    /\ Embedded(rawText, {"ws"})
    /\ analysis = Answer(W("AI_GENERATED"), Num(92), Arr(<<Str(<<"edge", " ", "halos">>)>>))

\* C4: a text that parses to an object never ends in an error of parsing or
\* reading the fields, whatever the fields hold; a text that does not parse
\* ends in an error.
C4_ParseableNeverFails ==
    (Answered /\ pc = "done") =>
        IF JsonLoads(rawText).ok /\ JsonLoads(rawText).val.t = "obj"
        THEN response.errorType \notin NormalizeErrors
        ELSE response.kind = "error"

\* the verdict field as the normalizer is to return it
ExpectedVerdict(d) ==
    IF /\ HasKey(d, <<"verdict">>)
       /\ GetKey(d, <<"verdict">>).t = "str"
       /\ GetKey(d, <<"verdict">>).s \in VerdictLiterals
    THEN GetKey(d, <<"verdict">>)
    ELSE W("INCONCLUSIVE")

\* C5: the returned verdict is the verdict field when that is one of the three
\* literals, and INCONCLUSIVE otherwise.
C5_VerdictDefaulted ==
    Succeeded =>
        /\ HasKey(ClientRecord.val, <<"verdict">>)
        /\ GetKey(ClientRecord.val, <<"verdict">>) = ExpectedVerdict(JsonLoads(rawText).val)

\* the confidence field as the normalizer is to return it
ExpectedConfidence(d) ==
    IF HasKey(d, <<"confidence">>) /\ GetKey(d, <<"confidence">>).t = "num"
    THEN LET c == GetKey(d, <<"confidence">>).n
         IN  Num(IF c < 0 THEN 0 ELSE IF c > 100 THEN 100 ELSE c)
    ELSE Num(0)

\* C6: the returned confidence is the confidence field clamped to [0, 1], and
\* 0.0 when the field is missing or not a number.
C6_ConfidenceClamped ==
    Succeeded =>
        /\ HasKey(ClientRecord.val, <<"confidence">>)
        /\ GetKey(ClientRecord.val, <<"confidence">>)
              = ExpectedConfidence(JsonLoads(rawText).val)

\* the hints field is an array of strings none of which is empty after trimming
HintsAllStrings(d) ==
    /\ HasKey(d, <<"hints">>)
    /\ GetKey(d, <<"hints">>).t = "arr"
    /\ \A i \in 1..Len(GetKey(d, <<"hints">>).a) : IsHint(GetKey(d, <<"hints">>).a[i])

Take(q, n) == SubSeq(q, 1, IF Len(q) < n THEN Len(q) ELSE n)

\* C7: of an array of non-empty strings the first six are returned, in order.
C7_HintsTruncated ==
    (Succeeded /\ HintsAllStrings(JsonLoads(rawText).val)) =>
        /\ HasKey(ClientRecord.val, <<"hints">>)
        /\ GetKey(ClientRecord.val, <<"hints">>)
              = Arr(Take(GetKey(JsonLoads(rawText).val, <<"hints">>).a, HintCap))

RECURSIVE OnlyStrings(_)
OnlyStrings(q) ==
    IF q = <<>> THEN <<>>
    ELSE (IF Head(q).t = "str" THEN <<Head(q)>> ELSE <<>>) \o OnlyStrings(Tail(q))

RECURSIVE TrimDropEmpty(_)
TrimDropEmpty(q) ==
    IF q = <<>> THEN <<>>
    ELSE (IF Trim(Head(q).s) # <<>> THEN <<Str(Trim(Head(q).s))>> ELSE <<>>)
         \o TrimDropEmpty(Tail(q))

\* the hints field as the normalizer is to return it
ExpectedHints(d) ==
    IF HasKey(d, <<"hints">>) /\ GetKey(d, <<"hints">>).t = "arr"
    THEN Arr(TrimDropEmpty(Take(OnlyStrings(GetKey(d, <<"hints">>).a), HintCap)))
    ELSE Arr(<<>>)

\* C8: the returned hints are the strings of the hints field, cut to six,
\* trimmed, the empty ones dropped; the empty sequence when the field is absent.
C8_HintsFiltered ==
    Succeeded =>
        /\ HasKey(ClientRecord.val, <<"hints">>)
        /\ GetKey(ClientRecord.val, <<"hints">>) = ExpectedHints(JsonLoads(rawText).val)

\* generatePresignedUrl has answered a request
PresignAnswered == presignResponse # NoPresignResponse

\* type "/" subtype, the type being image and the subtype one word
IsImageMimeType(fileType) ==
    /\ Len(fileType) = 3
    /\ fileType[1] = "image"
    /\ fileType[2] = "/"
    /\ fileType[3] \notin {"/", ";", " "}

\* C10 as claimed: a declared type that is no image MIME type is refused with
\* status 400 and no URL; an image MIME type is accepted.
C10_OnlyImageTypesAccepted ==
    PresignAnswered =>
        IF IsImageMimeType(presignRequest.fileType)
        THEN presignResponse.statusCode = 200
        ELSE presignResponse.statusCode = 400 /\ presignResponse.url = NoUrl

\* C10 amended: a declared type is refused with status 400 and no URL exactly
\* when it does not begin with image/ (in lower case); every other declared
\* type, an image MIME type or not, is answered 200 with a URL signed for it.
C10_ImagePrefixAccepted ==
    PresignAnswered =>
        LET ft == presignRequest.fileType
        IN  IF Len(ft) >= 2 /\ ft[1] = "image" /\ ft[2] = "/"
            THEN /\ presignResponse.statusCode = 200
                 /\ presignResponse.url.method = "put_object"
                 /\ presignResponse.url.ContentType = ft
            ELSE /\ presignResponse.statusCode = 400
                 /\ presignResponse.url = NoUrl
                 /\ presignResponse.key = <<>>

C10_Witness ==
    /\ presignRequest.fileType = <<"application", "/", "pdf">>
    /\ presignResponse = ErrorResponse(400, "Invalid file type")

\* C11: every response of generatePresignedUrl with status 200 carries a key
\* that begins with uploads/ and ends with the proposed file name, the
\* configured bucket, and a URL that signs a put_object of that bucket, that
\* key and the declared content type; no other status carries a URL.
C11_PresignResponseShape ==
    /\ presignResponse.statusCode \in {0, 200, 400}
    /\ presignResponse.statusCode = 200 =>
        /\ Len(presignResponse.key) >= 1
        /\ presignResponse.key[1] = "uploads/"
        /\ presignResponse.key[Len(presignResponse.key)] = presignRequest.fileName
        /\ presignResponse.bucket = BUCKET_NAME
        /\ presignResponse.url.method = "put_object"
        /\ presignResponse.url.Bucket = presignResponse.bucket
        /\ presignResponse.url.Key = presignResponse.key
        /\ presignResponse.url.ContentType = presignRequest.fileType
    /\ presignResponse.statusCode # 200 => presignResponse.url = NoUrl

C11_Witness ==
    /\ presignResponse.statusCode = 200
    /\ presignRequest.fileName = "../x.png"
    /\ presignResponse.key = <<"uploads/", "uuid-2", "-", "../x.png">>

\* C12: a PUT made with the issued URL is accepted only for the key the URL
\* was issued for and only up to 900 seconds after it was issued; a PUT made
\* later than that is refused, whatever its key, and so is a PUT for any
\* other key, whenever it is made.
C12_UploadScopedAndTimed ==
    upload # NoUpload =>
        /\ presignResponse.statusCode = 200
        /\ upload.statusCode \in {200, 403}
        /\ upload.statusCode = 200 =>
            /\ upload.key = presignResponse.key
            /\ upload.at - issuedAt <= 900
            /\ upload.at >= issuedAt
        /\ upload.at - issuedAt > 900 => upload.statusCode = 403
        /\ upload.key # presignResponse.key => upload.statusCode = 403

C12_Witness ==
    /\ upload.key = presignResponse.key
    /\ upload.contentType = presignRequest.fileType
    /\ upload.at - issuedAt > 900
    /\ upload.statusCode = 403

\* C13: one invocation of analyzeImage issues at most one get_object and at
\* most one converse; an invocation that ended with an exception has issued
\* each of them at most once, and converse only after its one get_object.
C13_AtMostOneCallEach ==
    /\ fetchCalls <= 1
    /\ inferCalls <= 1
    /\ inferCalls <= fetchCalls
    /\ pc \in {"fetch", "infer", "metric", "done"} => fetchCalls = 1
    /\ fetchOutcome \notin {"none", "bytes"} => pc = "done" /\ response.kind = "error"
    /\ inferOutcome \in {"unavailable", "timeout"} => pc = "done" /\ response.kind = "error"

C13_Witness ==
    /\ pc = "done"
    /\ inferOutcome = "timeout"
    /\ fetchCalls = 1
    /\ inferCalls = 1

\* C14: converse is called only after get_object has returned the bytes of the
\* requested key, and with exactly those bytes; when get_object raises, that
\* exception is what the invocation ends with, and no converse call, no parsed
\* analysis, no log line, no metric and no response with status 200 exist.
C14_InferOnlyAfterFetch ==
    /\ inferCalls >= 1 =>
        /\ fetchOutcome = "bytes"
        /\ imageBytes = StoredBytes[request.key]
        /\ inferInput = imageBytes
    /\ fetchOutcome \in {"notfound", "unavailable", "timeout"} =>
        /\ pc = "done"
        /\ response.kind = "error"
        /\ fetchOutcome = "notfound" => response.errorType = "NoSuchKey"
        /\ fetchOutcome = "unavailable" => response.errorType = "EndpointConnectionError"
        /\ inferCalls = 0
        /\ inferInput = ""
        /\ rawText = NoText
        /\ analysis = NoValue
        /\ logs = <<>>
        /\ metrics = <<>>

C14_Witness ==
    /\ fetchOutcome = "notfound"
    /\ response = Raised("NoSuchKey")
    /\ inferCalls = 0

\* C18: an invocation that ended with an exception of get_object, of converse
\* or of the parsing and reading of the text has emitted no metric; every
\* emitted metric belongs to a response with status 200, carries as dimension
\* one of the three verdict literals and, for Confidence, a value in [0, 1],
\* and both equal the verdict and the confidence of that response.
C18_MetricsValidAndAfterNormalization ==
    /\ (response.kind = "error" /\ metricOutcome = "none") => metrics = <<>>
    /\ metrics # <<>> =>
        /\ Succeeded
        /\ ClientRecord.ok
        /\ \A i \in 1..Len(metrics) :
            /\ metrics[i].Dimension = GetKey(ClientRecord.val, <<"verdict">>)
            /\ metrics[i].Dimension.t = "str"
            /\ metrics[i].Dimension.s \in VerdictLiterals
            /\ metrics[i].MetricName = "Confidence" =>
                /\ metrics[i].Value = GetKey(ClientRecord.val, <<"confidence">>)
                /\ metrics[i].Value.t = "num"
                /\ metrics[i].Value.n \in 0..100

\* the exceptions of a call that was not answered in time
TimeoutErrors == {"ConnectTimeoutError", "ReadTimeoutError"}

C17_CancelStopsHandler ==
    /\ cancelledAt = "fetch" => inferCalls = 0
    /\ cancelledAt \in {"fetch", "infer"} => metrics = <<>>
    /\ cancelledAt # "none" => ~Succeeded

\* what an invocation gives back, logs and emits, from its own request and
\* from the answers its own get_object, converse and put_metric_data received
OwnOutcome(req, fetched, inferred, text, metric) ==
    LET parsed == JsonLoads(text)
        failed(e) == [response |-> Raised(e), logs |-> <<>>, metrics |-> <<>>]
    IN  IF fetched # "bytes" THEN failed(FetchError(fetched))
        ELSE IF inferred # "text" THEN failed(InferError(inferred))
        ELSE IF ~parsed.ok THEN failed("JSONDecodeError")
        ELSE IF SubscriptError(parsed.val) # "" THEN failed(SubscriptError(parsed.val))
        ELSE IF ~ParamsValid(parsed.val)
             THEN [response |-> Raised("ParamValidationError"),
                   logs |-> <<LogLine(req, parsed.val)>>, metrics |-> <<>>]
        ELSE IF metric # "ok"
             THEN [response |-> Raised("ClientError"),
                   logs |-> <<LogLine(req, parsed.val)>>, metrics |-> <<>>]
        ELSE [response |-> Returned(200, JsonDumps(parsed.val)),
              logs |-> <<LogLine(req, parsed.val)>>,
              metrics |-> MetricData(parsed.val)]

C19_UploadAlwaysEnds ==
    /\ [](pending # {} => isUploading)
    /\ (isUploading ~> ~isUploading)
    /\ [][AnalysisResolves => ~isUploading' /\ result' = MockAnalysis]_vars
    /\ [][AnalysisThrows =>
            /\ ~isUploading'
            /\ error' = UploadErrorMessage
            /\ result' = result /\ resultFor' = resultFor]_vars
    /\ [](file = NoFile =>
            /\ HandleUploadStart(AppState).pending = pending
            /\ HandleUploadStart(AppState).started = started
            /\ HandleUploadStart(AppState).file = file
            /\ HandleUploadStart(AppState).result = result
            /\ HandleUploadStart(AppState).error = error)

C19_Witness ==
    /\ ~isUploading
    /\ started = 2
    /\ error = UploadErrorMessage
    /\ result = MockAnalysis
    /\ pending = {}

\* C20: whenever a result is shown it comes from an analysis that was started
\* for the file that is selected now, also when the selection was changed
\* while that analysis was awaited.
C20_ResultBelongsToSelection ==
    /\ result # NoResult => resultFor = file
    /\ [file |-> file, result |-> result, error |-> error] \in
         [file : Files \cup {NoFile}, result : {NoResult, MockAnalysis},
          error : {"", UploadErrorMessage}]

\* C21: at most one analysis is awaited at any time; the button is disabled
\* whenever no file is selected or isUploading is true, which is the case for
\* as long as an analysis is awaited, so that no click starts handleUpload
\* between the start of an analysis and its end.
C21_AtMostOneAnalysisInFlight ==
    /\ Cardinality(pending) <= 1
    /\ (file = NoFile \/ isUploading) <=> ButtonDisabled(AppState)
    /\ pending # {} => isUploading /\ ButtonDisabled(AppState)
    /\ ButtonDisabled(AppState) => ~ENABLED ClickUpload

\* an analysis is awaited for a file that is no longer the selected one
C21_Witness ==
    /\ Cardinality(pending) = 1
    /\ started = 2
    /\ isUploading
    /\ file # NoFile
    /\ \A awaited \in pending : awaited.file # file

====
